---- MODULE Spec2Model ----
(***************************************************************************)
(* Model of netlify/functions/get-weather.js.                              *)
(*                                                                         *)
(* The file holds two alternative definitions of exports.handler:          *)
(*   - the Gemini variant (lines 8-120): prompt-based forecast, with a     *)
(*     retry loop around the provider call;                                *)
(*   - the WeatherAPI variant (lines 127-277): structured provider, with   *)
(*     CORS preflight, credential and parameter checks and one call.       *)
(* One invocation of one of the two handlers is modelled.  The handler     *)
(* suspends at `await fetch(...)` and, in the Gemini variant, at the       *)
(* `await new Promise(setTimeout)` between attempts; each action is the    *)
(* code that runs between two suspension points.                           *)
(***************************************************************************)
EXTENDS Integers, Sequences, FiniteSets, TLC

VARIABLES
    variant,       \* which exports.handler is deployed
    event,         \* the inbound request (event.queryStringParameters, httpMethod)
    apiKey,        \* process.env.WEATHER_API_KEY
    pc,            \* position of the async handler
    currentRetry,  \* Gemini: let currentRetry
    delay,         \* Gemini: let delay
    dt,            \* WeatherAPI: formattedDate sent to the provider (0: none)
    calls,         \* number of fetch() calls issued so far
    sleeps,        \* delays handed to setTimeout so far, in order
    outcomes,      \* outcomes of the fetch() calls that have completed, in order
    resp,          \* the value the handler returned (NoResponse until it returns)
    \* WeatherAPI normalisation (lines 209-250), on concrete values
    npc,                  \* position inside the normalisation
    time,                 \* the time query parameter
    dayData,              \* forecastDay.day
    hourData,             \* forecastDay.hour
    current,              \* data.current
    teeTimeInMinutes,     \* const teeTimeInMinutes
    closestHourForecast,  \* index into hourData of the hour kept, 0 for null
    fields,               \* the body of the 200 response
    \* concurrent invocations of the handler
    invocations,   \* per request: position, calls, sleeps, outcomes, response
    frames         \* per activation of the handler: currentRetry and delay

handlerVars ==
    <<variant, event, apiKey, pc, currentRetry, delay, dt, calls, sleeps,
      outcomes, resp>>

normVars ==
    <<npc, time, dayData, hourData, current, teeTimeInMinutes,
      closestHourForecast, fields>>

concVars == <<invocations, frames>>

vars == <<handlerVars, normVars, concVars>>

----------------------------------------------------------------------------
(* Bounds of the model *)

\* calendar days the provider may report, 1..NumDates
NumDates == 2
\* longest forecastday array the provider returns
MaxDays == 2
\* longest hour array the closest-hour scan is run on
MaxHours == 3
\* requests handled concurrently
NumRequests == 2

----------------------------------------------------------------------------
(* Inputs *)

Variants == {"Gemini", "WeatherAPI"}

\* a query parameter is absent (undefined), the empty string, or a value
ParamValues == {"absent", "empty", "value"}

\* the calendar day the caller asks for
RequestedDay == NumDates

\* date: absent, empty, not parseable by new Date(), an ISO "YYYY-MM-DD"
\* string (parsed as UTC) or a long form such as "August 19, 2025" (parsed
\* in the host's local time zone); both valid forms denote RequestedDay
DateValues == {"absent", "empty", "invalid", "iso", "long"}

Methods == {"GET", "OPTIONS"}

\* process.env.WEATHER_API_KEY: undefined, "" or a key
KeyValues == {"unset", "empty", "set"}

\* event.queryStringParameters is null (hasParams = FALSE) or an object
Events ==
    [hasParams : BOOLEAN, location : ParamValues, date : DateValues,
     time : ParamValues, httpMethod : Methods]

\* a null queryStringParameters object carries no parameter
WellFormedEvent(e) ==
    e.hasParams
    \/ (e.location = "absent" /\ e.date = "absent" /\ e.time = "absent")

\* upstream HTTP statuses the provider answers with
Statuses == {200, 400, 429, 503}

\* response.ok
Ok(status) == status >= 200 /\ status <= 299

NoBody == [kind |-> "none"]

\* what fetch() rejecting looks like: no response at all
NetworkError == [net |-> TRUE, status |-> 0, body |-> NoBody]

\* Gemini response bodies:
\*   rejects      response.json() rejects (body is not JSON)
\*   null         result is null, or candidates[0] is null
\*   noCandidates candidates / content / parts missing or empty
\*   noText       parts[0] has no text
\*   badText      text is not JSON once the fences are stripped
\*   plain, fencedJson, fenced   text is JSON, bare or inside ``` fences
GeminiBodyKinds ==
    {"rejects", "null", "noCandidates", "noText", "badText", "plain",
     "fencedJson", "fenced"}

GeminiOutcomes ==
    {NetworkError}
    \cup {[net |-> FALSE, status |-> s, body |-> NoBody] :
            s \in {s2 \in Statuses : ~Ok(s2)}}
    \cup {[net |-> FALSE, status |-> 200, body |-> [kind |-> k]] :
            k \in GeminiBodyKinds}

\* one entry of forecast.forecastday
ForecastDays == [date : 1..NumDates, hasDay : BOOLEAN, hasHour : BOOLEAN]

SeqsUpTo(S, n) == UNION {[1..k -> S] : k \in 0..n}

\* WeatherAPI response bodies:
\*   rejects  response.json() rejects
\*   null     data is null
\*   object   data is an object; hasForecast says whether
\*            data.forecast.forecastday exists, forecastday is that array
WeatherBodies ==
    {[kind |-> "rejects"], [kind |-> "null"]}
    \cup {[kind |-> "object", hasError |-> he, hasForecast |-> FALSE,
           forecastday |-> <<>>, hasCurrent |-> hc] :
            he \in BOOLEAN, hc \in BOOLEAN}
    \cup {[kind |-> "object", hasError |-> FALSE, hasForecast |-> TRUE,
           forecastday |-> fd, hasCurrent |-> hc] :
            fd \in SeqsUpTo(ForecastDays, MaxDays), hc \in BOOLEAN}

WeatherOutcomes ==
    {NetworkError}
    \cup {[net |-> FALSE, status |-> s, body |-> b] :
            s \in Statuses, b \in WeatherBodies}

----------------------------------------------------------------------------
(* Responses *)

NoResponse == [statusCode |-> 0, headers |-> "none", body |-> "none"]

\* Gemini variant
GeminiInvalidResponse ==
    [statusCode |-> 500, headers |-> "none", body |-> "errInvalid"]

GeminiSuccessResponse ==
    [statusCode |-> 200, headers |-> "contentType", body |-> "weather"]

GeminiMaxRetriesResponse ==
    [statusCode |-> 500, headers |-> "none", body |-> "errFailed"]

\* WeatherAPI variant
PreflightResponse ==
    [statusCode |-> 204, headers |-> "cors", body |-> "none"]

ConfigErrorResponse ==
    [statusCode |-> 500, headers |-> "cors", body |-> "errConfig"]

MissingParamsResponse ==
    [statusCode |-> 400, headers |-> "cors", body |-> "errMissing"]

UpstreamErrorResponse_copyPaste(status) ==
    [statusCode |-> status, headers |-> "cors", body |-> "errMissing"]

UpstreamErrorResponse(status) ==
    [statusCode |-> status, headers |-> "cors", body |-> "errUpstream"]

NoForecastResponse ==
    [statusCode |-> 404, headers |-> "cors", body |-> "errNoForecast"]

WeatherSuccessResponse ==
    [statusCode |-> 200, headers |-> "cors", body |-> "weather"]

CatchResponse ==
    [statusCode |-> 500, headers |-> "cors", body |-> "errCaught"]

----------------------------------------------------------------------------
(* Gemini variant *)

maxRetries_four == 3 + 1

maxRetries == 3

InitialDelay_doubled == 1000 + 1000

InitialDelay == 1000

RateLimitFactor_two == 1 + 1

RateLimitFactor == 4

BackoffFactor_three == 2 + 1

BackoffFactor == 2

\* the try block throws: fetch rejects, the status is not ok, response.json()
\* rejects, a property of null/undefined is read, or JSON.parse throws
GeminiThrows_noStatusThrow(o) ==
    o.net \/ o.body.kind \in {"rejects", "null", "noText", "badText"}

GeminiThrows_structureRetried(o) ==
    o.net \/ ~Ok(o.status)
    \/ o.body.kind \in {"rejects", "null", "noCandidates", "noText", "badText"}

GeminiThrows(o) ==
    o.net \/ ~Ok(o.status)
    \/ o.body.kind \in {"rejects", "null", "noText", "badText"}

\* the else branch of the structure test
GeminiInvalidStructure(o) ==
    ~o.net /\ Ok(o.status) /\ o.body.kind = "noCandidates"

\* delay after the status test of the try block
DelayAfterStatus(o, d) ==
    IF ~o.net /\ ~Ok(o.status) /\ o.status = 429 THEN d * RateLimitFactor
    ELSE d

\* const { location, date, time } = event.queryStringParameters; then the
\* first pass through the loop up to `await fetch`
G_Start ==
    /\ variant = "Gemini"
    /\ pc = "start"
    /\ IF ~event.hasParams
       THEN /\ pc' = "threw"
            /\ UNCHANGED <<currentRetry, delay, calls>>
       ELSE /\ currentRetry' = 0
            /\ delay' = InitialDelay
            /\ pc' = "fetching"
            /\ calls' = calls + 1
    /\ UNCHANGED <<variant, event, apiKey, dt, sleeps, outcomes, resp>>
    /\ UNCHANGED <<normVars, concVars>>

\* fetch settles: the rest of the try block and, if it throws, the catch
\* block up to its return or its `await new Promise(setTimeout)`
G_FetchSettles_noAwait(o) ==
    /\ outcomes' = Append(outcomes, o)
    /\ IF GeminiThrows(o)
       THEN /\ currentRetry' = currentRetry + 1
            /\ IF currentRetry' < maxRetries
               THEN /\ pc' = "fetching"
                    /\ sleeps' = Append(sleeps, DelayAfterStatus(o, delay))
                    /\ delay' = DelayAfterStatus(o, delay) * BackoffFactor
                    /\ calls' = calls + 1
                    /\ resp' = resp
               ELSE /\ pc' = "done"
                    /\ delay' = DelayAfterStatus(o, delay)
                    /\ resp' = GeminiMaxRetriesResponse
                    /\ UNCHANGED <<sleeps, calls>>
       ELSE /\ pc' = "done"
            /\ resp' = IF GeminiInvalidStructure(o) THEN GeminiInvalidResponse
                       ELSE GeminiSuccessResponse
            /\ UNCHANGED <<currentRetry, delay, sleeps, calls>>
    /\ UNCHANGED <<variant, event, apiKey, dt>>
    /\ UNCHANGED <<normVars, concVars>>

G_FetchSettles_sleepBeforeGivingUp(o) ==
    /\ outcomes' = Append(outcomes, o)
    /\ IF GeminiThrows(o)
       THEN /\ currentRetry' = currentRetry + 1
            /\ delay' = DelayAfterStatus(o, delay)
            /\ sleeps' = Append(sleeps, delay')
            /\ IF currentRetry' < maxRetries
               THEN /\ pc' = "sleeping"
                    /\ resp' = resp
               ELSE /\ pc' = "done"
                    /\ resp' = GeminiMaxRetriesResponse
       ELSE /\ pc' = "done"
            /\ resp' = IF GeminiInvalidStructure(o) THEN GeminiInvalidResponse
                       ELSE GeminiSuccessResponse
            /\ UNCHANGED <<currentRetry, delay, sleeps>>
    /\ UNCHANGED <<variant, event, apiKey, dt, calls>>
    /\ UNCHANGED <<normVars, concVars>>

G_FetchSettles(o) ==
    /\ outcomes' = Append(outcomes, o)
    /\ IF GeminiThrows(o)
       THEN /\ currentRetry' = currentRetry + 1
            /\ delay' = DelayAfterStatus(o, delay)
            /\ IF currentRetry' < maxRetries
               THEN /\ pc' = "sleeping"
                    /\ sleeps' = Append(sleeps, delay')
                    /\ resp' = resp
               ELSE /\ pc' = "done"
                    /\ resp' = GeminiMaxRetriesResponse
                    /\ sleeps' = sleeps
       ELSE /\ pc' = "done"
            /\ resp' = IF GeminiInvalidStructure(o) THEN GeminiInvalidResponse
                       ELSE GeminiSuccessResponse
            /\ UNCHANGED <<currentRetry, delay, sleeps>>
    /\ UNCHANGED <<variant, event, apiKey, dt, calls>>
    /\ UNCHANGED <<normVars, concVars>>

G_FetchDone ==
    /\ variant = "Gemini"
    /\ pc = "fetching"
    /\ \E o \in GeminiOutcomes : G_FetchSettles(o)

\* the timer fires: delay *= 2, the loop test, and the next `await fetch`
G_SleepDone ==
    /\ variant = "Gemini"
    /\ pc = "sleeping"
    /\ delay' = delay * BackoffFactor
    /\ IF currentRetry < maxRetries
       THEN /\ pc' = "fetching"
            /\ calls' = calls + 1
       ELSE /\ pc' = "fellThrough"
            /\ calls' = calls
    /\ UNCHANGED <<variant, event, apiKey, currentRetry, dt, sleeps,
                   outcomes, resp>>
    /\ UNCHANGED <<normVars, concVars>>

----------------------------------------------------------------------------
(* WeatherAPI variant *)

\* !WEATHER_API_KEY
KeyMissing_undefinedOnly(k) == k = "unset"

KeyMissing(k) == k \in {"unset", "empty"}

\* !location || !date || !time
ParamsMissing_noTime(e) ==
    e.location \in {"absent", "empty"} \/ e.date \in {"absent", "empty"}

ParamsMissing(e) ==
    \/ e.location \in {"absent", "empty"}
    \/ e.date \in {"absent", "empty"}
    \/ e.time \in {"absent", "empty"}

\* new Date(date).toISOString() throws a RangeError on an invalid date
DateInvalid(e) == e.date = "invalid"

\* hours by which the host's local midnight precedes UTC midnight of the
\* same calendar day: 0 on a UTC host, positive east of Greenwich
TzShifts == {0, 1}

\* dateObj.toISOString().split('T')[0]: an ISO date is parsed as UTC; any
\* other form is parsed as local midnight, which east of Greenwich is still
\* the day before in UTC
FormattedDate(e, tz) ==
    IF e.date = "long" /\ tz > 0 THEN RequestedDay - 1 ELSE RequestedDay

\* the path taken from the entry of the handler to its first return or await
WeatherBranch(e, k) ==
    IF e.httpMethod = "OPTIONS" THEN "preflight"
    ELSE IF KeyMissing(k) THEN "config"
    ELSE IF ParamsMissing(e) THEN "missing"
    ELSE IF DateInvalid(e) THEN "caught"
    ELSE "fetch"

\* data.forecast?.forecastday?.[0]
HasForecastDay_matchDate(b) ==
    /\ b.hasForecast
    /\ \E i \in 1..Len(b.forecastday) : b.forecastday[i].date = RequestedDay

HasForecastDay(b) == b.hasForecast /\ Len(b.forecastday) > 0

\* the statements after the forecastDay test throw a TypeError: dayData is
\* undefined, hourData is not iterable, or data.current is undefined
NormalizeThrows(b) ==
    \/ ~b.forecastday[1].hasDay
    \/ ~b.forecastday[1].hasHour
    \/ ~b.hasCurrent

\* the value returned once fetch has settled with outcome o
WeatherResponse(o) ==
    IF o.net \/ o.body.kind \in {"rejects", "null"} THEN CatchResponse
    ELSE IF ~Ok(o.status) THEN UpstreamErrorResponse(o.status)
    ELSE IF ~HasForecastDay(o.body) THEN NoForecastResponse
    ELSE IF NormalizeThrows(o.body) THEN CatchResponse
    ELSE WeatherSuccessResponse

\* entry of the handler up to its first return or `await fetch`
W_Start ==
    /\ variant = "WeatherAPI"
    /\ pc = "start"
    /\ IF ~event.hasParams
       THEN /\ pc' = "threw"
            /\ UNCHANGED <<resp, calls, dt>>
       ELSE LET branch == WeatherBranch(event, apiKey) IN
            IF branch = "fetch"
            THEN /\ pc' = "fetching"
                 /\ calls' = calls + 1
                 /\ \E tz \in TzShifts : dt' = FormattedDate(event, tz)
                 /\ resp' = resp
            ELSE /\ pc' = "done"
                 /\ resp' = CASE branch = "preflight" -> PreflightResponse
                              [] branch = "config" -> ConfigErrorResponse
                              [] branch = "missing" -> MissingParamsResponse
                              [] OTHER -> CatchResponse
                 /\ UNCHANGED <<calls, dt>>
    /\ UNCHANGED <<variant, event, apiKey, currentRetry, delay, sleeps,
                   outcomes>>
    /\ UNCHANGED <<normVars, concVars>>

\* fetch settles: the rest of the try block, or the catch block
W_FetchSettles(o) ==
    /\ outcomes' = Append(outcomes, o)
    /\ resp' = WeatherResponse(o)
    /\ pc' = "done"
    /\ UNCHANGED <<variant, event, apiKey, currentRetry, delay, dt, calls,
                   sleeps>>
    /\ UNCHANGED <<normVars, concVars>>

W_FetchDone ==
    /\ variant = "WeatherAPI"
    /\ pc = "fetching"
    /\ \E o \in WeatherOutcomes : W_FetchSettles(o)

----------------------------------------------------------------------------
(* WeatherAPI variant: normalisation of the payload (lines 209-250) *)

\* an upstream numeric field is absent, 0, or a non-zero number
NumValues == {"absent", "zero", "value"}

\* an upstream string field is absent, "", or a non-empty string
StrValues == {"absent", "empty", "value"}

\* the time parameter "h:mm AM": Number() of the two parts around ':' and
\* the part after the space
Times(minuteSet, suffixes) ==
    [hours : 1..12, minutes : minuteSet, ampm : suffixes]

\* one entry of forecastDay.hour; time is new Date(hour.time) read back as
\* getHours() * 60 + getMinutes(); text is condition.text
HourRecords(timeSet, strs, nums) ==
    [time : timeSet, text : strs, feelslike_f : nums, wind_mph : nums,
     wind_dir : strs]

DayRecords(nums) == [maxtemp_f : nums, daily_chance_of_rain : nums, uv : nums]

CurrentRecords(nums) == [last_updated_epoch : nums]

\* the hour array is in chronological order
IsAscending(q) == \A i \in 1..(Len(q) - 1) : q[i].time < q[i + 1].time

\* ampmPart.toLowerCase()
ToLowerCase(a) ==
    CASE a = "AM" -> "am"
      [] a = "PM" -> "pm"
      [] OTHER -> a

\* lines 220-224
AdjustHours_pmAlways(hours, ampm) ==
    IF ToLowerCase(ampm) = "pm" THEN hours + 12
    ELSE IF ToLowerCase(ampm) = "am" /\ hours = 12 THEN 0
    ELSE hours

AdjustHours(hours, ampm) ==
    IF ToLowerCase(ampm) = "pm" /\ hours < 12 THEN hours + 12
    ELSE IF ToLowerCase(ampm) = "am" /\ hours = 12 THEN 0
    ELSE hours

\* lines 216-226
TeeTimeInMinutes(t) == AdjustHours(t.hours, t.ampm) * 60 + t.minutes

\* let minDiff = Infinity
Infinity == -1

Abs(x) == IF x < 0 THEN -x ELSE x

\* diff < minDiff
Closer_orEqual(diff, minDiff) == minDiff = Infinity \/ diff <= minDiff

Closer(diff, minDiff) == minDiff = Infinity \/ diff < minDiff

\* the for loop of lines 228-239, from entry i on
RECURSIVE ScanHours(_, _, _, _, _)
ScanHours(hd, tee, i, minDiff, closest) ==
    IF i > Len(hd) THEN closest
    ELSE LET diff == Abs(hd[i].time - tee) IN
         IF Closer(diff, minDiff)
         THEN ScanHours(hd, tee, i + 1, diff, i)
         ELSE ScanHours(hd, tee, i + 1, minDiff, closest)

\* JavaScript truthiness of a field
Truthy(v) == v = "value"

\* `${v}`
Str(v) ==
    CASE v = "absent" -> "undefined"
      [] v = "zero" -> "0"
      [] v = "empty" -> ""
      [] OTHER -> "text"

\* `${Math.round(v)}`
Rounded(v) ==
    CASE v = "absent" -> "NaN"
      [] v = "zero" -> "0"
      [] OTHER -> "rounded"

NA == <<"N/A">>

\* closestHourForecast?.f
HourField(hd, closest, f) == IF closest = 0 THEN "absent" ELSE hd[closest][f]

\* line 241
HighTempDay(day) ==
    IF Truthy(day.maxtemp_f) THEN <<Rounded(day.maxtemp_f), "F">> ELSE NA

\* line 242
ConditionsTeeTime(hd, closest) ==
    IF Truthy(HourField(hd, closest, "text"))
    THEN <<Str(HourField(hd, closest, "text"))>> ELSE NA

\* line 243
FeelsLikeTemp(hd, closest) ==
    IF Truthy(HourField(hd, closest, "feelslike_f"))
    THEN <<Rounded(HourField(hd, closest, "feelslike_f")), "F">> ELSE NA

\* line 244
PrecipitationChance(day) ==
    IF day.daily_chance_of_rain # "absent"
    THEN <<Str(day.daily_chance_of_rain), "%">> ELSE NA

\* line 245
WindSpeedDirection(hd, closest) ==
    IF HourField(hd, closest, "wind_mph") # "absent"
    THEN <<Rounded(HourField(hd, closest, "wind_mph")), " mph from ",
           Str(HourField(hd, closest, "wind_dir"))>>
    ELSE NA

\* line 246
UvIndex(day) == IF day.uv # "absent" THEN <<Rounded(day.uv)>> ELSE NA

\* lines 249-250: toLocaleString of new Date(NaN) is "Invalid Date"
ForecastUpdated(cur) ==
    IF cur.last_updated_epoch = "absent" THEN <<"Invalid Date">>
    ELSE <<"date">>

NoFields == [high_temp_day |-> <<>>]

\* lines 216-226
N_ParseTime ==
    /\ npc = "parse"
    /\ teeTimeInMinutes' = TeeTimeInMinutes(time)
    /\ npc' = "scan"
    /\ UNCHANGED <<time, dayData, hourData, current, closestHourForecast,
                   fields>>
    /\ UNCHANGED <<handlerVars, concVars>>

\* lines 213-214 and 228-239
N_ScanHours ==
    /\ npc = "scan"
    /\ closestHourForecast' =
           ScanHours(hourData, teeTimeInMinutes, 1, Infinity, 0)
    /\ npc' = "format"
    /\ UNCHANGED <<time, dayData, hourData, current, teeTimeInMinutes, fields>>
    /\ UNCHANGED <<handlerVars, concVars>>

\* lines 241-250 and the body of the return at 254-267
N_Format ==
    /\ npc = "format"
    /\ fields' =
         [high_temp_day |-> HighTempDay(dayData),
          conditions_tee_time |->
              ConditionsTeeTime(hourData, closestHourForecast),
          feels_like_temp |-> FeelsLikeTemp(hourData, closestHourForecast),
          precipitation_chance |-> PrecipitationChance(dayData),
          wind_speed_direction |->
              WindSpeedDirection(hourData, closestHourForecast),
          uv_index |-> UvIndex(dayData),
          forecast_updated |-> ForecastUpdated(current)]
    /\ npc' = "done"
    /\ UNCHANGED <<time, dayData, hourData, current, teeTimeInMinutes,
                   closestHourForecast>>
    /\ UNCHANGED <<handlerVars, concVars>>

----------------------------------------------------------------------------
(* Concurrent invocations *)

Requests == 1..NumRequests

\* `let currentRetry`, `let delay` (lines 54-55) are declared inside the
\* handler: each invocation has its own activation frame
FrameOf_moduleLevel(r) == 1

FrameOf(r) == r

NewFrame == [currentRetry |-> 0, delay |-> InitialDelay]

NewInvocation ==
    [pc |-> "start", calls |-> 0, sleeps |-> <<>>, outcomes |-> <<>>,
     resp |-> NoResponse]

\* upstream outcomes of the Gemini variant, one of each way through the
\* try/catch
ConcGeminiOutcomes ==
    {o \in GeminiOutcomes :
        ~o.net /\ (Ok(o.status) => o.body.kind \in {"noCandidates", "plain"})
               /\ o.status # 400}

\* upstream outcomes of the WeatherAPI variant, one of each way through
\* the try/catch
ConcWeatherOutcomes ==
    {o \in WeatherOutcomes :
        \/ o.net
        \/ /\ o.status \in {200, 503}
           /\ o.body.kind = "object"
           /\ o.body.hasCurrent
           /\ ~o.body.hasError
           /\ Len(o.body.forecastday) <= 1
           /\ \A i \in 1..Len(o.body.forecastday) :
                 /\ o.body.forecastday[i].date = RequestedDay
                 /\ o.body.forecastday[i].hasDay
                 /\ o.body.forecastday[i].hasHour}

\* request r enters the handler and reaches `await fetch`; the request is a
\* GET with every parameter and the credential set
C_Start(r) ==
    /\ invocations[r].pc = "start"
    /\ invocations' = [invocations EXCEPT ![r].pc = "fetching",
                                          ![r].calls = @ + 1]
    /\ frames' = IF variant = "Gemini"
                 THEN [frames EXCEPT ![FrameOf(r)] = NewFrame]
                 ELSE frames
    /\ UNCHANGED <<handlerVars, normVars>>

\* the fetch of request r settles (G_FetchSettles, W_FetchSettles)
C_FetchSettles(r, o) ==
    LET me == invocations[r]
        fr == frames[FrameOf(r)]
    IN
    IF variant = "WeatherAPI"
    THEN /\ invocations' =
              [invocations EXCEPT ![r].outcomes = Append(@, o),
                                  ![r].resp = WeatherResponse(o),
                                  ![r].pc = "done"]
         /\ frames' = frames
    ELSE IF GeminiThrows(o)
    THEN LET retry == fr.currentRetry + 1
             d == DelayAfterStatus(o, fr.delay)
         IN
         /\ frames' = [frames EXCEPT ![FrameOf(r)] =
                          [currentRetry |-> retry, delay |-> d]]
         /\ invocations' =
              IF retry < maxRetries
              THEN [invocations EXCEPT ![r].outcomes = Append(@, o),
                                       ![r].sleeps = Append(@, d),
                                       ![r].pc = "sleeping"]
              ELSE [invocations EXCEPT ![r].outcomes = Append(@, o),
                                       ![r].resp = GeminiMaxRetriesResponse,
                                       ![r].pc = "done"]
    ELSE /\ invocations' =
              [invocations EXCEPT
                 ![r].outcomes = Append(@, o),
                 ![r].resp = IF GeminiInvalidStructure(o)
                             THEN GeminiInvalidResponse
                             ELSE GeminiSuccessResponse,
                 ![r].pc = "done"]
         /\ frames' = frames

C_FetchDone(r) ==
    /\ invocations[r].pc = "fetching"
    /\ \E o \in IF variant = "Gemini" THEN ConcGeminiOutcomes
                ELSE ConcWeatherOutcomes :
          C_FetchSettles(r, o)
    /\ UNCHANGED <<handlerVars, normVars>>

\* the timer of request r fires (G_SleepDone)
C_SleepDone(r) ==
    /\ invocations[r].pc = "sleeping"
    /\ frames' = [frames EXCEPT ![FrameOf(r)].delay = @ * BackoffFactor]
    /\ invocations' =
         IF frames[FrameOf(r)].currentRetry < maxRetries
         THEN [invocations EXCEPT ![r].pc = "fetching", ![r].calls = @ + 1]
         ELSE [invocations EXCEPT ![r].pc = "fellThrough"]
    /\ UNCHANGED <<handlerVars, normVars>>

----------------------------------------------------------------------------
(* Specification *)

\* the normalisation is not being looked at
NormOff ==
    /\ npc = "off"
    /\ time = [hours |-> 12, minutes |-> 0, ampm |-> "AM"]
    /\ dayData = [maxtemp_f |-> "value", daily_chance_of_rain |-> "value",
                  uv |-> "value"]
    /\ hourData = <<>>
    /\ current = [last_updated_epoch |-> "value"]
    /\ teeTimeInMinutes = 0
    /\ closestHourForecast = 0
    /\ fields = NoFields

\* no concurrent invocation is being looked at
ConcOff ==
    /\ invocations = <<>>
    /\ frames = <<>>

Init ==
    /\ variant \in Variants
    /\ event \in {e \in Events : WellFormedEvent(e)}
    /\ apiKey \in KeyValues
    /\ pc = "start"
    /\ currentRetry = 0
    /\ delay = InitialDelay
    /\ dt = 0
    /\ calls = 0
    /\ sleeps = <<>>
    /\ outcomes = <<>>
    /\ resp = NoResponse
    /\ NormOff
    /\ ConcOff

Next ==
    \/ G_Start
    \/ G_FetchDone
    \/ G_SleepDone
    \/ W_Start
    \/ W_FetchDone

Spec == Init /\ [][Next]_vars

\* The WeatherAPI handler has received a complete payload and runs lines
\* 209-250 on it
HandlerNormalising ==
    /\ variant = "WeatherAPI"
    /\ event = [hasParams |-> TRUE, location |-> "value", date |-> "iso",
                time |-> "value", httpMethod |-> "GET"]
    /\ apiKey = "set"
    /\ pc = "normalising"
    /\ currentRetry = 0
    /\ delay = InitialDelay
    /\ dt = RequestedDay
    /\ calls = 1
    /\ sleeps = <<>>
    /\ outcomes = <<>>
    /\ resp = NoResponse

NormStart ==
    /\ ConcOff
    /\ npc = "parse"
    /\ teeTimeInMinutes = 0
    /\ closestHourForecast = 0
    /\ fields = NoFields

\* minutes of the day at which the provider reports an hour
HourSlots == {0, 600, 660, 720, 780, 1380}

CompleteHours(timeSet) == HourRecords(timeSet, {"value"}, {"value"})

CompleteDay == CHOOSE d \in DayRecords({"value"}) : TRUE

CompleteCurrent == CHOOSE c \in CurrentRecords({"value"}) : TRUE

\* every time "h:mm AM/PM" of the day, against one hourly record
InitTime ==
    /\ HandlerNormalising
    /\ NormStart
    /\ time \in Times(0..59, {"AM", "PM", "am", "pm"})
    /\ hourData \in SeqsUpTo(CompleteHours({660}), 1)
    /\ dayData = CompleteDay
    /\ current = CompleteCurrent

\* chronologically ordered hour arrays against times around the hour
InitHours ==
    /\ HandlerNormalising
    /\ NormStart
    /\ time \in Times({0, 20, 30}, {"AM", "PM"})
    /\ hourData \in {q \in SeqsUpTo(CompleteHours(HourSlots), MaxHours) :
                        IsAscending(q)}
    /\ dayData = CompleteDay
    /\ current = CompleteCurrent

\* payloads whose fields are present, zero or absent
InitFormat ==
    /\ HandlerNormalising
    /\ NormStart
    /\ time = [hours |-> 11, minutes |-> 20, ampm |-> "AM"]
    /\ hourData \in SeqsUpTo(HourRecords({660}, StrValues, NumValues), 1)
    /\ dayData \in DayRecords(NumValues)
    /\ current \in CurrentRecords(NumValues)

NormNext ==
    \/ N_ParseTime
    \/ N_ScanHours
    \/ N_Format

SpecTime == InitTime /\ [][NormNext]_vars

SpecHours == InitHours /\ [][NormNext]_vars

SpecFormat == InitFormat /\ [][NormNext]_vars

\* NumRequests requests arrive at one deployment of the handler
InitConc ==
    /\ variant \in Variants
    /\ event = [hasParams |-> TRUE, location |-> "value", date |-> "iso",
                time |-> "value", httpMethod |-> "GET"]
    /\ apiKey = "set"
    /\ pc = "concurrent"
    /\ currentRetry = 0
    /\ delay = InitialDelay
    /\ dt = RequestedDay
    /\ calls = 0
    /\ sleeps = <<>>
    /\ outcomes = <<>>
    /\ resp = NoResponse
    /\ NormOff
    /\ invocations = [r \in Requests |-> NewInvocation]
    /\ frames = [r \in Requests |-> NewFrame]

ConcNext ==
    \E r \in Requests :
        \/ C_Start(r)
        \/ C_FetchDone(r)
        \/ C_SleepDone(r)

SpecConc == InitConc /\ [][ConcNext]_vars

----------------------------------------------------------------------------
(* Vocabulary of the properties, stated on the observable state only *)

Returned == pc = "done"

FieldMissing ==
    \/ event.location \in {"absent", "empty"}
    \/ event.date \in {"absent", "empty"}
    \/ event.time \in {"absent", "empty"}

CredentialMissing == apiKey \in {"unset", "empty"}

IsOptions == event.httpMethod = "OPTIONS"

Success2xx(o) == ~o.net /\ o.status \in 200..299

\* non-2xx upstream status or network failure
Transient(o) == o.net \/ o.status \notin 200..299

RateLimited(o) == ~o.net /\ o.status = 429

\* 2xx whose body or embedded text cannot be parsed
Unparseable200(o) ==
    Success2xx(o) /\ o.body.kind \in {"rejects", "null", "noText", "badText"}

\* 2xx whose body parses but lacks candidates[0].content.parts[0]
WrongShape200(o) == Success2xx(o) /\ o.body.kind = "noCandidates"

\* the attempt failed: non-success status, network error or parse error
AttemptFailed(o) == Transient(o) \/ Unparseable200(o)

LastOutcome == outcomes[Len(outcomes)]

----------------------------------------------------------------------------
(* C1 *)

\* C1 (as stated): every response to a request in which location, date or
\* time is absent or empty has status 400.
C1_MissingFieldAlways400 ==
    (Returned /\ FieldMissing) => resp.statusCode = 400

\* C1 (amended): in the WeatherAPI variant, a request that is not OPTIONS,
\* is handled while the credential is set and lacks location, date or time
\* never reaches the provider, and the response it gets has status 400; when
\* it carries a query-parameter object that response is the handler's first
\* step.
C1_MissingFieldIs400 ==
    (variant = "WeatherAPI" /\ ~IsOptions /\ ~CredentialMissing
     /\ FieldMissing)
    => /\ calls = 0
       /\ pc \in {"start", "done", "threw"}
       /\ (Returned => resp.statusCode = 400 /\ resp.body = "errMissing")
       /\ (event.hasParams /\ pc # "start" => Returned)

C1_Witness ==
    /\ variant = "WeatherAPI" /\ ~IsOptions /\ ~CredentialMissing
    /\ event.location = "value" /\ event.date = "iso" /\ event.time = "empty"
    /\ Returned /\ resp.statusCode = 400

----------------------------------------------------------------------------
(* C2 *)

\* C2 (as stated): every response to a request handled while WEATHER_API_KEY
\* is unset or empty has status 500, whatever the parameters and the method.
C2_NoCredentialAlways500 ==
    (Returned /\ CredentialMissing) => resp.statusCode = 500

\* C2 (amended): in the WeatherAPI variant, a request that is not OPTIONS
\* and is handled while WEATHER_API_KEY is unset or empty never reaches the
\* provider, and the response it gets is the configuration-error 500,
\* whatever the values of location, date and time.
C2_NoCredentialIs500 ==
    (variant = "WeatherAPI" /\ ~IsOptions /\ CredentialMissing)
    => /\ calls = 0
       /\ pc \in {"start", "done", "threw"}
       /\ (Returned => resp.statusCode = 500 /\ resp.body = "errConfig")
       /\ (event.hasParams /\ pc # "start" => Returned)

C2_Witness ==
    /\ variant = "WeatherAPI" /\ ~IsOptions /\ apiKey = "empty"
    /\ ~FieldMissing /\ event.date = "iso"
    /\ Returned /\ resp.statusCode = 500 /\ resp.body = "errConfig"

----------------------------------------------------------------------------
(* C3 *)

\* C3: once the WeatherAPI handler has run on an OPTIONS request it has
\* responded with status 204 and no body and has made no provider call,
\* whatever the query parameters and the credential.
C3_OptionsAnswered204 ==
    (variant = "WeatherAPI" /\ IsOptions /\ pc # "start")
    => /\ Returned
       /\ resp.statusCode = 204
       /\ resp.body = "none"
       /\ calls = 0

----------------------------------------------------------------------------
(* C4 *)

\* C4: an execution that ends with the missing-field 400 or with the
\* configuration-error 500 has made no provider call.
C4_NoCallBeforeValidationError ==
    (Returned
     /\ \/ (resp.statusCode = 400 /\ resp.body = "errMissing")
        \/ (resp.statusCode = 500 /\ resp.body = "errConfig"))
    => calls = 0 /\ outcomes = <<>> /\ sleeps = <<>>

C4_Witness ==
    /\ Returned /\ resp.statusCode = 500 /\ resp.body = "errConfig"
    /\ ~FieldMissing /\ calls = 0

----------------------------------------------------------------------------
(* C5 *)

\* C5: at most 3 provider calls are made for one request, and when the third
\* attempt fails too the handler stops and responds with status 500.
C5_AtMostThreeAttempts ==
    /\ calls <= 3
    /\ Len(outcomes) <= 3
    /\ (Len(outcomes) = 3 /\ AttemptFailed(outcomes[3]))
       => (Returned /\ resp.statusCode = 500)

C5_Witness ==
    /\ calls = 3 /\ Len(outcomes) = 3
    /\ \A i \in 1..3 : AttemptFailed(outcomes[i])
    /\ Returned /\ resp.statusCode = 500

----------------------------------------------------------------------------
(* C6 *)

\* C6 (as stated): a response that follows a transient upstream failure
\* (non-2xx status or network failure) is only given once the attempt limit
\* is exhausted, and has status 500.
C6_TransientNeverAnsweredDirectly ==
    (Returned /\ Len(outcomes) > 0 /\ Transient(LastOutcome))
    => (Len(outcomes) = 3 /\ resp.statusCode = 500)

\* C6 (amended): in the Gemini variant, a transient upstream failure on the
\* first or second attempt is not answered: the handler sleeps and then
\* makes another provider call; a transient failure on the third attempt is
\* answered with status 500.
C6_GeminiTransientRetried ==
    variant = "Gemini" =>
        \A i \in 1..Len(outcomes) :
            Transient(outcomes[i]) =>
                IF i < 3
                THEN /\ Len(sleeps) >= i
                     /\ \/ calls > i
                        \/ (calls = i /\ pc = "sleeping")
                     /\ (i = Len(outcomes) => resp = NoResponse)
                ELSE Returned /\ resp.statusCode = 500

C6_Witness ==
    /\ variant = "Gemini" /\ Len(outcomes) = 2
    /\ Transient(outcomes[1]) /\ Success2xx(outcomes[2])
    /\ calls = 2 /\ Len(sleeps) = 1
    /\ Returned /\ resp.statusCode = 200

----------------------------------------------------------------------------
(* C7 *)

\* C7: when three consecutive attempts fail and none of the failures is a
\* 429, the handler has slept 1000 ms after the first and 2000 ms after the
\* second, and nothing else, and responds 500.
C7_BackoffWithout429 ==
    (/\ Len(outcomes) = 3
     /\ \A i \in 1..3 : AttemptFailed(outcomes[i]) /\ ~RateLimited(outcomes[i]))
    => /\ sleeps = <<1000, 2000>>
       /\ Returned
       /\ resp.statusCode = 500

C7_Witness ==
    /\ Len(outcomes) = 3
    /\ \A i \in 1..3 : AttemptFailed(outcomes[i]) /\ ~RateLimited(outcomes[i])
    /\ outcomes[1].net /\ outcomes[2].status = 503
    /\ sleeps = <<1000, 2000>> /\ Returned

----------------------------------------------------------------------------
(* C8 *)

\* the delay slept after attempt k had that attempt failed without a 429
DelayIfNot429(k) == IF k = 1 THEN 1000 ELSE 2 * sleeps[k - 1]

\* C8: the delay slept after an attempt that failed with 429 is 4 times the
\* delay a non-429 failure would have given at that point, and doubling
\* goes on from the multiplied value (429 then non-429: 4000 ms, 8000 ms).
C8_RateLimitQuadruples ==
    /\ \A k \in 1..Len(sleeps) :
          sleeps[k] = IF RateLimited(outcomes[k]) THEN 4 * DelayIfNot429(k)
                      ELSE DelayIfNot429(k)
    /\ (/\ Len(sleeps) = 2
        /\ RateLimited(outcomes[1])
        /\ ~RateLimited(outcomes[2]))
       => sleeps = <<4000, 8000>>

C8_Witness ==
    /\ Len(outcomes) >= 2 /\ RateLimited(outcomes[1])
    /\ ~RateLimited(outcomes[2])
    /\ sleeps = <<4000, 8000>>

----------------------------------------------------------------------------
(* C9 *)

----------------------------------------------------------------------------
(* C10 *)

\* the provider answered 2xx with an object as body
ForecastAnswered ==
    /\ variant = "WeatherAPI" /\ Returned /\ Len(outcomes) = 1
    /\ Success2xx(outcomes[1]) /\ outcomes[1].body.kind = "object"

ForecastArray == outcomes[1].body.forecastday

ArrayMissingOrEmpty ==
    ~outcomes[1].body.hasForecast \/ Len(ForecastArray) = 0

NoEntryForRequestedDate ==
    \/ ArrayMissingOrEmpty
    \/ \A i \in 1..Len(ForecastArray) : ForecastArray[i].date # RequestedDay

\* every entry of the array and the payload around it are complete
PayloadComplete ==
    /\ outcomes[1].body.hasCurrent
    /\ \A i \in 1..Len(ForecastArray) :
          ForecastArray[i].hasDay /\ ForecastArray[i].hasHour

\* C10 (as stated): when the provider answers successfully with an
\* otherwise complete payload whose forecast-day array has no entry for the
\* requested date (empty, missing or only other dates), the response has
\* status 404.
C10_NoEntryForDateIs404 ==
    (ForecastAnswered /\ PayloadComplete /\ NoEntryForRequestedDate)
    => resp.statusCode = 404

\* C10 (amended): when the provider answers successfully, the response has
\* status 404 exactly when the forecast-day array is missing or empty; a
\* non-empty array is used at its first entry whatever the date of that
\* entry.
C10_MissingOrEmptyArrayIs404 ==
    ForecastAnswered =>
        /\ (resp.statusCode = 404 <=> ArrayMissingOrEmpty)
        /\ (resp.statusCode = 404 => resp.body = "errNoForecast")

C10_Witness ==
    /\ ForecastAnswered /\ outcomes[1].body.hasForecast
    /\ Len(ForecastArray) = 0
    /\ resp.statusCode = 404

----------------------------------------------------------------------------
(* C12 *)

\* C12: every response the handler returns carries Content-Type and the
\* three Access-Control-Allow-* headers.
C12_EveryResponseHasCorsHeaders ==
    Returned => resp.headers = "cors"

----------------------------------------------------------------------------
(* C13 *)

\* C13: no invocation ends with an exception leaving the handler or without
\* a response, and every failure response carries an {error} body.
C13_AlwaysAStructuredResponse ==
    /\ pc \notin {"threw", "fellThrough"}
    /\ (Returned /\ resp.statusCode \notin {200, 204})
       => resp.body \in {"errInvalid", "errFailed", "errConfig", "errMissing",
                         "errUpstream", "errNoForecast", "errCaught"}

----------------------------------------------------------------------------
(* C16 *)

\* C16: a provider call is started only when every earlier call of the
\* request has settled and the sleep that followed it is over, so that one
\* call at most is in flight.
C16_AttemptsSequential ==
    [][calls' # calls =>
        /\ calls' = calls + 1
        /\ Len(outcomes) = calls
        /\ Len(sleeps) = calls
        /\ pc \in {"start", "sleeping"}
        /\ calls' - Len(outcomes') = 1]_vars

C16_Witness ==
    /\ calls = 3 /\ Len(outcomes) = 2 /\ Len(sleeps) = 2 /\ pc = "fetching"

----------------------------------------------------------------------------
(* C18 *)

\* C18: every sleep lies between two provider attempts: an execution that
\* returned after k >= 1 provider calls has slept exactly k-1 times, and no
\* sleep follows the last allowed failed attempt.
C18_SleepsOnlyBetweenAttempts ==
    /\ Len(sleeps) <= Len(outcomes)
    /\ calls <= Len(sleeps) + 1
    /\ (Returned /\ calls >= 1) => Len(sleeps) = calls - 1
    /\ pc = "sleeping" => (resp = NoResponse /\ Len(outcomes) < 3)

C18_Witness ==
    /\ Returned /\ calls = 3 /\ Len(sleeps) = 2
    /\ resp.statusCode = 500 /\ resp.body = "errFailed"

----------------------------------------------------------------------------
(* C19 *)

RECURSIVE Pow(_, _)
Pow(b, n) == IF n = 0 THEN 1 ELSE b * Pow(b, n - 1)

\* number of 429 answers among attempts 1..k
RateLimitedUpTo(k) == Cardinality({i \in 1..k : RateLimited(outcomes[i])})

RECURSIVE SumSeq(_)
SumSeq(q) == IF q = <<>> THEN 0 ELSE Head(q) + SumSeq(Tail(q))

\* C19: the delay slept before attempt k+1 is
\* 1000 * 2^(k-1) * 4^(number of 429 among attempts 1..k) ms; no sleep
\* exceeds 32000 ms and the sleeps of one request total at most 36000 ms.
C19_BackoffClosedForm ==
    /\ \A k \in 1..Len(sleeps) :
          /\ sleeps[k] = 1000 * Pow(2, k - 1) * Pow(4, RateLimitedUpTo(k))
          /\ sleeps[k] <= 32000
    /\ SumSeq(sleeps) <= 36000

C19_Witness ==
    /\ sleeps = <<4000, 32000>>
    /\ RateLimited(outcomes[1]) /\ RateLimited(outcomes[2])

----------------------------------------------------------------------------
(* C15 *)

IsPm == time.ampm \in {"PM", "pm"}

\* minute of the day the time parameter denotes
RequestedMinute ==
    (time.hours % 12) * 60 + time.minutes + (IF IsPm THEN 720 ELSE 0)

TimeParsed == npc \in {"scan", "format", "done"}

\* C15: for "h:mm AM" and "h:mm PM", h in 1..12, mm in 00..59, the minute of
\* the day computed is (h mod 12)*60 + mm, plus 720 for PM, and lies in
\* 0..1439.
C15_MinuteOfDay ==
    (TimeParsed /\ time.ampm \in {"AM", "PM"})
    => /\ teeTimeInMinutes = RequestedMinute
       /\ teeTimeInMinutes \in 0..1439

C15_Witness ==
    /\ TimeParsed
    /\ time = [hours |-> 12, minutes |-> 0, ampm |-> "PM"]
    /\ teeTimeInMinutes = 720

----------------------------------------------------------------------------
(* C14 *)

HoursScanned == npc \in {"format", "done"}

Distance(i) == Abs(hourData[i].time - RequestedMinute)

\* C14: on a non-empty chronologically ordered hour array the hour kept is
\* at minimal distance in minutes from the requested time, and is the
\* earliest of the hours at that distance.
C14_ClosestHourEarliestOnTie ==
    (HoursScanned /\ hourData # <<>> /\ IsAscending(hourData))
    => /\ closestHourForecast \in 1..Len(hourData)
       /\ \A j \in 1..Len(hourData) :
             Distance(closestHourForecast) <= Distance(j)
       /\ \A j \in 1..(closestHourForecast - 1) :
             Distance(closestHourForecast) < Distance(j)

C14_Witness ==
    /\ HoursScanned
    /\ time = [hours |-> 11, minutes |-> 30, ampm |-> "AM"]
    /\ Len(hourData) = 3
    /\ hourData[1].time = 600 /\ hourData[2].time = 660
    /\ hourData[3].time = 720
    /\ closestHourForecast = 2

----------------------------------------------------------------------------
(* C11 *)

OutputFields ==
    {"high_temp_day", "conditions_tee_time", "feels_like_temp",
     "precipitation_chance", "wind_speed_direction", "uv_index",
     "forecast_updated"}

\* the upstream value an output field is derived from
SourceOf(f) ==
    CASE f = "high_temp_day" -> dayData.maxtemp_f
      [] f = "conditions_tee_time" ->
            IF closestHourForecast = 0 THEN "absent"
            ELSE hourData[closestHourForecast].text
      [] f = "feels_like_temp" ->
            IF closestHourForecast = 0 THEN "absent"
            ELSE hourData[closestHourForecast].feelslike_f
      [] f = "precipitation_chance" -> dayData.daily_chance_of_rain
      [] f = "wind_speed_direction" ->
            IF closestHourForecast = 0 THEN "absent"
            ELSE hourData[closestHourForecast].wind_mph
      [] f = "uv_index" -> dayData.uv
      [] OTHER -> current.last_updated_epoch

\* renderings of a value that is not there
BuiltFromAbsent == {"undefined", "NaN", "null", "Invalid Date"}

\* C11: in the body of a 200 response every output field is there, a field
\* whose upstream source is absent is exactly "N/A", and no field is a
\* string built from an absent value.
C11_AbsentRendersNA ==
    npc = "done"
    => /\ DOMAIN fields = OutputFields
       /\ \A f \in OutputFields :
             /\ fields[f] # <<>>
             /\ SourceOf(f) = "absent" => fields[f] = <<"N/A">>
             /\ \A k \in 1..Len(fields[f]) : fields[f][k] \notin BuiltFromAbsent

----------------------------------------------------------------------------
(* C17 *)

\* failed attempts among the outcomes request r has seen
OwnFailures(r) ==
    Cardinality({i \in 1..Len(invocations[r].outcomes) :
                    AttemptFailed(invocations[r].outcomes[i])})

\* 429 answers among the first k outcomes request r has seen
OwnRateLimited(r, k) ==
    Cardinality({i \in 1..k : RateLimited(invocations[r].outcomes[i])})

\* what request r shows of its attempt counter, delays and response
Observed(r) ==
    <<invocations[r].calls, invocations[r].sleeps, invocations[r].resp>>

\* C17: with requests interleaving at fetch and sleep, the attempts made,
\* the delays slept and the response of each request are determined by the
\* upstream outcomes of that request alone.
C17_RequestsIndependent ==
    \A r \in Requests :
        LET me == invocations[r]
            n == Len(me.outcomes)
        IN
        /\ me.calls = CASE me.pc = "start" -> 0
                        [] me.pc = "fetching" -> n + 1
                        [] OTHER -> n
        /\ variant = "Gemini" =>
              /\ Len(me.sleeps) = IF OwnFailures(r) < 3 THEN OwnFailures(r)
                                  ELSE 2
              /\ \A k \in 1..Len(me.sleeps) :
                    me.sleeps[k] =
                        1000 * Pow(2, k - 1) * Pow(4, OwnRateLimited(r, k))
              /\ me.pc = "done" =>
                    me.resp.statusCode =
                        IF AttemptFailed(me.outcomes[n])
                           \/ WrongShape200(me.outcomes[n])
                        THEN 500 ELSE 200
        /\ variant = "WeatherAPI" =>
              /\ me.sleeps = <<>>
              /\ me.calls <= 1
        /\ \A r2 \in Requests :
              (invocations[r2].outcomes = me.outcomes
               /\ invocations[r2].pc = me.pc)
              => Observed(r2) = Observed(r)

C17_Witness ==
    /\ variant = "Gemini"
    /\ invocations[1].pc = "sleeping" /\ invocations[1].sleeps = <<4000>>
    /\ invocations[2].pc = "fetching" /\ invocations[2].calls = 2
    /\ invocations[2].sleeps = <<1000>>

====
